---- MODULE Spec2Model ----
(***************************************************************************)
(* Model of the oprf package (nthparty/oprf): the data and mask wrapper    *)
(* classes of oprf/oprf.py and the blind / evaluate / unblind exchange a   *)
(* caller composes from them.                                              *)
(*                                                                         *)
(* Both wrapper classes are subclasses of bytes that delegate every        *)
(* computation to the oblivious library (ristretto point and scalar).      *)
(* The library is modelled by what it computes, on a scaled-down group:    *)
(* a cyclic group of prime order L whose elements are encoded as EncLen    *)
(* bytes (32 in the library), scalars little-endian, points through an     *)
(* injective compression, Base64 as RFC 4648 defines it.                   *)
(*                                                                         *)
(* Every Python value is a record [cls, bytes]: cls is the class of the    *)
(* object ("mask", "data", "str", "bytes", "bytearray", "list", "none")    *)
(* or, for a call that raised, the class of the exception; bytes is the    *)
(* content (code points for a str).                                        *)
(***************************************************************************)
EXTENDS Integers, Sequences, FiniteSets, TLC

\* Order of the group and of its scalar field (prime). The library's is
\* 2^252 + 27742317777372353535851937790883648493.
L == 7

\* Length in bytes of an encoded scalar or point (the library's is 32).
EncLen == 2

\* Number of operations a caller applies to one data object.
MaxOps == 3

\* Number of times a caller inverts one mask.
MaxInv == 2

RECURSIVE Pow(_, _)
Pow(b, e) == IF e = 0 THEN 1 ELSE b * Pow(b, e - 1)

RECURSIVE PowMod(_, _, _)
PowMod(b, e, n) == IF e = 0 THEN 1 % n ELSE (b * PowMod(b, e - 1, n)) % n

\* ---------------------------------------------------------------- values

Obj(c, bs) == [cls |-> c, bytes |-> bs]

None == Obj("none", <<>>)

Raised(kind) == Obj(kind, <<>>)

ErrorKinds == {"TypeError", "ValueError", "RuntimeError", "binascii.Error"}

IsError(v) == v.cls \in ErrorKinds

\* bytes.__eq__: two bytes objects (of any subclass) are equal when their
\* contents are; an exception is not a value and equals nothing.
PyEq(a, b) == ~IsError(a) /\ ~IsError(b) /\ a.bytes = b.bytes

\* int.to_bytes(n, EncLen, 'little') / int.from_bytes(bs, 'little')
ToBytes(n) == [i \in 1..EncLen |-> (n \div Pow(256, i - 1)) % 256]

RECURSIVE FromBytes(_)
FromBytes(bs) == IF bs = <<>> THEN 0 ELSE Head(bs) + 256 * FromBytes(Tail(bs))

VARIABLES build, pc, call, m0, m, ninv, k, d0, d, hist, txt

vars == <<build, pc, call, m0, m, ninv, k, d0, d, hist, txt>>

\* ------------------------------------------------- the oblivious library
\* What the calls oprf.py makes into oblivious.ristretto compute.

\* A scalar encoding is canonical when it is EncLen bytes, little-endian,
\* of a residue below the group order.
IsCanonical(bs) == Len(bs) = EncLen /\ FromBytes(bs) < L

IsZero(bs) == \A i \in 1..Len(bs) : bs[i] = 0

\* scalar(): a random non-zero scalar.
scalar_random == {Obj("scalar", ToBytes(n)) : n \in 1..(L - 1)}

\* ~s: s^(L-2) modulo L. The group order is prime, so this is the inverse
\* of every non-zero residue; of zero it is zero. The libsodium binding
\* reports the zero case as an error, the pure-Python build returns the
\* computed value.
\* Variant: the exponent of the inversion is one short.
scalar_invert_short(s) ==
    IF IsError(s) THEN s
    ELSE IF Len(s.bytes) # EncLen THEN Raised("ValueError")
    ELSE Obj("scalar", ToBytes(PowMod(FromBytes(s.bytes) % L, L - 3, L)))

scalar_invert(s) ==
    IF IsError(s) THEN s
    ELSE IF Len(s.bytes) # EncLen THEN Raised("ValueError")
    ELSE IF IsZero(s.bytes) /\ build = "sodium" THEN Raised("RuntimeError")
    ELSE Obj("scalar", ToBytes(PowMod(FromBytes(s.bytes) % L, L - 2, L)))

\* Point compression: the group element of index j (j times the base
\* point) has the encoding ToBytes(j * 259); the identity is all zeros.
\* Decompression of any other buffer fails (-1).
Compress(j) == ToBytes(j * 259)

Decompress(bs) ==
    IF Len(bs) # EncLen THEN -1
    ELSE LET n == FromBytes(bs)
         IN IF n % 259 = 0 /\ n \div 259 < L THEN n \div 259 ELSE -1

IsPoint(bs) == Decompress(bs) >= 0

\* s * p: scalar multiplication of a point. The top bit of the scalar is
\* cleared before use; a buffer that is no point or no scalar is an error.
scalar_mul_point(s, p) ==
    IF IsError(s) THEN s
    ELSE IF IsError(p) THEN p
    ELSE IF p.cls \notin {"point", "data"} THEN Raised("TypeError")
    ELSE LET j == Decompress(p.bytes)
         IN IF Len(s.bytes) # EncLen \/ j < 0 THEN Raised("ValueError")
            ELSE Obj("point",
                     Compress(((FromBytes(s.bytes) % (Pow(256, EncLen) \div 2)) * j) % L))

\* Stand-in for the SHA-2 digests of the library: a polynomial fold.
RECURSIVE Digest(_)
Digest(bs) ==
    IF bs = <<>> THEN 5381
    ELSE (Digest(SubSeq(bs, 1, Len(bs) - 1)) * 33 + bs[Len(bs)]) % 65521

\* point.hash(bs): the digest mapped to a group element.
point_hash(bs) == Obj("point", Compress(Digest(bs) % L))

\* Largest power of two that is at most L: the digest of scalar.hash is
\* cut to this many values, all canonical.
RECURSIVE HashRange(_)
HashRange(n) == IF 2 * n > L THEN n ELSE HashRange(2 * n)

\* scalar.hash(bs): the digest with its top bits cleared.
scalar_hash(bs) == Obj("scalar", ToBytes(Digest(bs) % HashRange(1)))

\* ---------------------------------------------------------------- Base64
\* base64.standard_b64encode(...).decode('utf-8') and standard_b64decode.

B64Char(i) ==
    IF i < 26 THEN 65 + i
    ELSE IF i < 52 THEN 97 + (i - 26)
    ELSE IF i < 62 THEN 48 + (i - 52)
    ELSE IF i = 62 THEN 43
    ELSE IF i = 63 THEN 47
    ELSE 61

B64Index(c) ==
    IF c \in 65..90 THEN c - 65
    ELSE IF c \in 97..122 THEN c - 97 + 26
    ELSE IF c \in 48..57 THEN c - 48 + 52
    ELSE IF c = 43 THEN 62
    ELSE IF c = 47 THEN 63
    ELSE IF c = 61 THEN 64
    ELSE -1

RECURSIVE B64Encode(_)
B64Encode(bs) ==
    IF Len(bs) = 0 THEN <<>>
    ELSE IF Len(bs) = 1 THEN
        LET n == bs[1] * 16
        IN <<B64Char(n \div 64), B64Char(n % 64), 61, 61>>
    ELSE IF Len(bs) = 2 THEN
        LET n == (bs[1] * 256 + bs[2]) * 4
        IN <<B64Char(n \div 4096), B64Char((n \div 64) % 64), B64Char(n % 64), 61>>
    ELSE
        LET n == bs[1] * 65536 + bs[2] * 256 + bs[3]
        IN <<B64Char(n \div 262144), B64Char((n \div 4096) % 64),
             B64Char((n \div 64) % 64), B64Char(n % 64)>>
           \o B64Encode(SubSeq(bs, 4, Len(bs)))

\* A text decodes when it is made of quadruples of alphabet characters, the
\* last of which may end in one or two '='.
RECURSIVE B64WellFormed(_)
B64WellFormed(t) ==
    IF Len(t) = 0 THEN TRUE
    ELSE IF Len(t) < 4 THEN FALSE
    ELSE LET q == [i \in 1..4 |-> B64Index(t[i])]
         IN /\ q[1] \in 0..63 /\ q[2] \in 0..63
            /\ q[3] \in 0..64 /\ q[4] \in 0..64
            /\ (q[3] = 64 => q[4] = 64)
            /\ (q[4] = 64 => Len(t) = 4)
            /\ B64WellFormed(SubSeq(t, 5, Len(t)))

RECURSIVE B64Decode(_)
B64Decode(t) ==
    IF Len(t) < 4 THEN <<>>
    ELSE LET q == [i \in 1..4 |-> B64Index(t[i])]
         IN IF q[3] = 64 THEN
                <<(q[1] * 64 + q[2]) \div 16>>
            ELSE IF q[4] = 64 THEN
                LET n == (q[1] * 4096 + q[2] * 64 + q[3]) \div 4
                IN <<n \div 256, n % 256>>
            ELSE
                LET n == q[1] * 262144 + q[2] * 4096 + q[3] * 64 + q[4]
                IN <<n \div 65536, (n \div 256) % 256, n % 256>>
                   \o B64Decode(SubSeq(t, 5, Len(t)))

\* point.to_base64 / scalar.to_base64
lib_to_base64(v) ==
    IF IsError(v) THEN v ELSE Obj("str", B64Encode(v.bytes))

\* point.from_base64 / scalar.from_base64: the decoded bytes.
lib_from_base64(c, s) ==
    IF IsError(s) THEN s
    ELSE IF ~B64WellFormed(s.bytes) THEN Raised("binascii.Error")
    ELSE Obj(c, B64Decode(s.bytes))

\* bytes.__new__(cls, v): a bytes object of class cls with the content of v
\* (an exception raised while computing v propagates).
bytes_new(c, v) == IF IsError(v) THEN v ELSE Obj(c, v.bytes)

\* point(bs) / scalar(bs) with a buffer: the buffer, wrapped unchecked.
point_new(bs) == bytes_new("point", bs)

scalar_new(bs) == bytes_new("scalar", bs)

\* point(): a random point.
point_random == {Obj("point", Compress(j)) : j \in 0..(L - 1)}

\* str.encode(): UTF-8.
RECURSIVE Utf8(_)
Utf8(cps) ==
    IF cps = <<>> THEN <<>>
    ELSE LET c == Head(cps)
         IN (IF c < 128 THEN <<c>>
             ELSE IF c < 2048 THEN <<192 + (c \div 64), 128 + (c % 64)>>
             ELSE <<224 + (c \div 4096), 128 + ((c \div 64) % 64), 128 + (c % 64)>>)
            \o Utf8(Tail(cps))

encode(argument) ==
    IF argument.cls = "str" THEN Utf8(argument.bytes) ELSE argument.bytes

\* ------------------------------------------------------------ class data

\* Variant: no isinstance check of the argument.
data_hash_unchecked(argument) ==
    bytes_new("data", point_hash(encode(argument)))

data_hash(argument) ==
    IF argument.cls \notin {"bytes", "bytearray", "str"}
    THEN Raised("TypeError")
    ELSE bytes_new("data", point_hash(encode(argument)))

\* Variant: the text is wrapped without being decoded.
data_from_base64_undecoded(s) == bytes_new("data", s)

data_from_base64(s) == bytes_new("data", lib_from_base64("point", s))

data_new(bs) == bytes_new("data", point_new(bs))

data_random == {bytes_new("data", p) : p \in point_random}

data_to_base64(self) == lib_to_base64(point_new(self))

\* ------------------------------------------------------------ class mask

\* Variant: the random scalar may be zero.
mask_random_any ==
    {bytes_new("mask", Obj("scalar", ToBytes(n))) : n \in 0..(L - 1)}

mask_random == {bytes_new("mask", s) : s \in scalar_random}

mask_hash(argument) ==
    IF argument.cls \notin {"bytes", "bytearray", "str"}
    THEN Raised("TypeError")
    ELSE bytes_new("mask", scalar_hash(encode(argument)))

mask_from_base64(s) == bytes_new("mask", lib_from_base64("scalar", s))

\* Variant: a buffer that is no canonical scalar encoding is refused.
mask_new_checked(bs) ==
    IF ~IsError(bs) /\ ~IsCanonical(bs.bytes) THEN Raised("ValueError")
    ELSE bytes_new("mask", scalar_new(bs))

mask_new(bs) == bytes_new("mask", scalar_new(bs))

\* Variant: the ~ is missing.
mask_invert_dropped(self) == mask_new(scalar_new(self))

mask_invert(self) == mask_new(scalar_invert(scalar_new(self)))

mask_mask(self, argument) ==
    data_new(scalar_mul_point(scalar_new(self), argument))

\* Variant: the multiplication is missing.
mask_call_dropped(self, argument) == data_new(argument)

mask_call(self, argument) ==
    data_new(scalar_mul_point(scalar_new(self), argument))

\* Variant: multiplies by the inverse of the mask.
mask_mul_inverted(self, argument) ==
    data_new(scalar_mul_point(scalar_invert(scalar_new(self)), argument))

mask_mul(self, argument) ==
    data_new(scalar_mul_point(scalar_new(self), argument))

\* Variant: multiplies by the mask, not by its inverse.
mask_unmask_uninverted(self, argument) ==
    data_new(scalar_mul_point(scalar_new(self), argument))

mask_unmask(self, argument) ==
    data_new(scalar_mul_point(scalar_new(mask_invert(self)), argument))

mask_to_base64(self) == lib_to_base64(scalar_new(self))

\* data.__truediv__ (class data; it uses mask.__invert__ and mask.__mul__)
data_truediv(self, argument) == data_new(mask_mul(mask_invert(argument), self))

\* The same three methods as the 2.0.0 sources write them, on oblivious.inv
\* and oblivious.mul.
old_mask_invert(self) == mask_new(scalar_invert(self))

old_mask_call(self, argument) == data_new(scalar_mul_point(self, argument))

old_mask_unmask(self, argument) == old_mask_call(old_mask_invert(self), argument)

old_data_truediv(self, argument) == old_mask_call(old_mask_invert(argument), self)

\* ------------------------------------------------------------ the caller
\* A caller builds a mask m, may invert it or carry it through Base64,
\* obtains the evaluator's mask k, builds a data object and applies up to
\* MaxOps masking operations to it. A register that holds an exception
\* object records that the call raised; nothing more is done with it.

\* Arguments given to the hash methods.
HashArgs ==
    { Obj("str", <<97, 98>>), Obj("bytes", <<97, 98>>),
      Obj("bytearray", <<97, 98>>), Obj("bytes", <<123>>),
      Obj("str", <<252>>), Obj("bytes", <<195, 188>>),
      Obj("str", <<>>), Obj("list", <<1, 2, 3>>), None }

LongBuffer == [i \in 1..(EncLen + 1) |-> 1]

\* Buffers given to mask(bs).
MaskBuffers ==
    { Obj("bytes", ToBytes(0)), Obj("bytes", ToBytes(3)),
      Obj("bytes", ToBytes(L)),
      Obj("bytes", <<1>>), Obj("bytes", LongBuffer) }

\* Buffers given to data(bs).
DataBuffers ==
    { Obj("bytes", Compress(2)), Obj("bytes", ToBytes(1)),
      Obj("bytes", <<1>>), Obj("bytes", LongBuffer) }

\* Texts given to mask.from_base64 and data.from_base64.
MaskTexts ==
    { Obj("str", B64Encode(ToBytes(5))), Obj("str", B64Encode(ToBytes(2))),
      Obj("str", <<81, 81>>) }

DataTexts ==
    { Obj("str", B64Encode(Compress(4))), Obj("str", <<81, 81, 81>>) }

\* The most recent call: the method and its argument.
Call(how, arg) == [how |-> how, arg |-> arg]

NoCall == Call("none", None)

Init ==
    /\ build \in {"native", "sodium"}
    /\ pc = "new"
    /\ call = NoCall
    /\ m0 = None /\ m = None /\ ninv = 0
    /\ k = None
    /\ d0 = None /\ d = None
    /\ hist = <<>>
    /\ txt = None

SetMask(how, arg, v) ==
    /\ pc = "new"
    /\ pc' = "mask"
    /\ call' = Call(how, arg)
    /\ m0' = v /\ m' = v
    /\ UNCHANGED <<build, ninv, k, d0, d, hist, txt>>

MaskRandom == \E v \in mask_random : SetMask("mask.random", None, v)

MaskHash == \E a \in HashArgs : SetMask("mask.hash", a, mask_hash(a))

MaskFromBase64 ==
    \E s \in MaskTexts : SetMask("mask.from_base64", s, mask_from_base64(s))

MaskNew == \E bs \in MaskBuffers : SetMask("mask", bs, mask_new(bs))

\* m = ~m
MaskInvert ==
    /\ pc = "mask" /\ ~IsError(m) /\ txt = None
    /\ ninv < MaxInv
    /\ \/ m' = mask_invert(m)
       \/ m' = old_mask_invert(m)
    /\ ninv' = ninv + 1
    /\ call' = Call("mask.__invert__", m)
    /\ UNCHANGED <<build, pc, m0, k, d0, d, hist, txt>>

\* txt = m.to_base64()
MaskToBase64 ==
    /\ pc = "mask" /\ ~IsError(m) /\ txt = None
    /\ txt' = mask_to_base64(m)
    /\ call' = Call("mask.to_base64", m)
    /\ UNCHANGED <<build, pc, m0, m, ninv, k, d0, d, hist>>

\* m = mask.from_base64(txt)
MaskReload ==
    /\ pc = "mask" /\ txt # None
    /\ m' = mask_from_base64(txt)
    /\ txt' = None
    /\ call' = Call("mask.from_base64", txt)
    /\ UNCHANGED <<build, pc, m0, ninv, k, d0, d, hist>>

\* The evaluator's mask.
EvaluatorMask ==
    /\ pc = "mask" /\ ~IsError(m) /\ ninv = 0 /\ txt = None
    /\ k' \in mask_random
    /\ pc' = "key"
    /\ call' = Call("mask.random", None)
    /\ UNCHANGED <<build, m0, m, ninv, d0, d, hist, txt>>

SetData(how, arg, v) ==
    /\ pc = "key"
    /\ pc' = "data"
    /\ call' = Call(how, arg)
    /\ d0' = v /\ d' = v
    /\ UNCHANGED <<build, m0, m, ninv, k, hist, txt>>

DataHash == \E a \in HashArgs : SetData("data.hash", a, data_hash(a))

DataFromBase64 ==
    \E s \in DataTexts : SetData("data.from_base64", s, data_from_base64(s))

DataNew == \E bs \in DataBuffers : SetData("data", bs, data_new(bs))

DataRandom == \E v \in data_random : SetData("data", None, v)

Step(name, v) ==
    /\ pc = "data" /\ ~IsError(d) /\ txt = None
    /\ Len(hist) < MaxOps
    /\ d' = v
    /\ hist' = Append(hist, name)
    /\ call' = Call(name, None)
    /\ UNCHANGED <<build, pc, m0, m, ninv, k, d0, txt>>

\* d = m.mask(d), d = m(d) or d = m * d
Blind ==
    \/ Step("mask_m", mask_mask(m, d))
    \/ Step("mask_m", mask_call(m, d))
    \/ Step("mask_m", mask_mul(m, d))

\* d = k.mask(d), d = k(d) or d = k * d
Evaluate ==
    \/ Step("mask_k", mask_mask(k, d))
    \/ Step("mask_k", mask_call(k, d))
    \/ Step("mask_k", mask_mul(k, d))

\* d = m.unmask(d) or d = d / m
Unblind ==
    \/ Step("unmask_m", mask_unmask(m, d))
    \/ Step("unmask_m", data_truediv(d, m))
    \/ Step("unmask_m", old_mask_unmask(m, d))
    \/ Step("unmask_m", old_data_truediv(d, m))

\* d = (~m)(d)
MaskWithInverse ==
    \/ Step("invmask_m", mask_call(mask_invert(m), d))
    \/ Step("invmask_m", old_mask_call(old_mask_invert(m), d))

\* txt = d.to_base64(): a data object is serialised to be sent to the
\* party that applies the next operation.
DataToBase64 ==
    /\ pc = "data" /\ ~IsError(d) /\ txt = None
    /\ Len(hist) < MaxOps
    /\ txt' = data_to_base64(d)
    /\ call' = Call("data.to_base64", d)
    /\ UNCHANGED <<build, pc, m0, m, ninv, k, d0, d, hist>>

\* d = data.from_base64(txt)
DataReload ==
    /\ pc = "data" /\ txt # None
    /\ d' = data_from_base64(txt)
    /\ txt' = None
    /\ call' = Call("data.from_base64", txt)
    /\ UNCHANGED <<build, pc, m0, m, ninv, k, d0, hist>>

Next ==
    \/ MaskRandom \/ MaskHash \/ MaskFromBase64 \/ MaskNew
    \/ MaskInvert \/ MaskToBase64 \/ MaskReload
    \/ EvaluatorMask
    \/ DataHash \/ DataFromBase64 \/ DataNew \/ DataRandom
    \/ Blind \/ Evaluate \/ Unblind \/ MaskWithInverse
    \/ DataToBase64 \/ DataReload

Spec == Init /\ [][Next]_vars

\* ---------------------------------------------------------------- claims

\* A valid mask: the canonical encoding of a non-zero scalar.
IsMask(v) ==
    ~IsError(v) /\ v.cls = "mask" /\ IsCanonical(v.bytes) /\ ~IsZero(v.bytes)

\* A valid data object: the encoding of a group element.
IsData(v) == ~IsError(v) /\ v.cls = "data" /\ IsPoint(v.bytes)

Valid == pc = "data" /\ IsMask(m) /\ IsMask(k) /\ IsData(d0)

Ran(h) == pc = "data" /\ hist = h /\ Valid

\* C1: blind with m, evaluate with k, unblind with m leaves the data object
\* masked with k alone: m.unmask(k.mask(m.mask(d0))) == k.mask(d0).
BlindEvaluateUnblind ==
    Ran(<<"mask_m", "mask_k", "unmask_m">>)
        => (d.cls = "data" /\ PyEq(d, mask_mask(k, d0)))

BlindEvaluateUnblindWitness ==
    /\ Valid /\ hist = <<"mask_m", "mask_k", "unmask_m">>
    /\ ~IsZero(d0.bytes) /\ ~PyEq(d, d0) /\ FromBytes(m.bytes) > 1
    /\ PyEq(d, mask_mask(k, d0))

\* C2: a mask and its inverse cancel: m.unmask(m.mask(d0)) == d0,
\* (~m)(m(d0)) == d0 and m((~m)(d0)) == d0.
Invertibility ==
    \A h \in { <<"mask_m", "unmask_m">>, <<"mask_m", "invmask_m">>,
               <<"invmask_m", "mask_m">> } :
        Ran(h) => (d.cls = "data" /\ PyEq(d, d0))

InvertibilityWitness ==
    /\ Valid /\ hist = <<"mask_m", "unmask_m">>
    /\ ~IsZero(d0.bytes) /\ FromBytes(m.bytes) > 1 /\ PyEq(d, d0)

\* C3: two masks applied in either order give the same data object:
\* k.mask(m.mask(d0)) == m.mask(k.mask(d0)).
Commutativity ==
    /\ Ran(<<"mask_m", "mask_k">>) => PyEq(d, mask_mask(m, mask_mask(k, d0)))
    /\ Ran(<<"mask_k", "mask_m">>) => PyEq(d, mask_mask(k, mask_mask(m, d0)))

CommutativityWitness ==
    /\ Valid /\ hist = <<"mask_k", "mask_m">>
    /\ ~IsZero(d0.bytes) /\ m.bytes # k.bytes
    /\ FromBytes(m.bytes) > 1 /\ FromBytes(k.bytes) > 1
    /\ PyEq(d, mask_mask(k, mask_mask(m, d0)))

\* The scalar s is an inverse of the scalar encoded by bs.
IsInverseOf(s, bs) == (s * FromBytes(bs)) % L = 1

Built(how) == pc = "mask" /\ call.how = how

\* C4, as claimed: whatever public constructor built it (mask.random,
\* mask.hash, mask.from_base64, mask(bs)), a mask is a non-zero,
\* invertible scalar.
EveryMaskInvertible ==
    ((\E how \in {"mask.random", "mask.hash", "mask.from_base64", "mask"} :
        Built(how)) /\ ~IsError(m))
        => (IsMask(m) /\ \E s \in 0..(L - 1) : IsInverseOf(s, m.bytes))

\* C4, amended: a mask from mask.random is a non-zero scalar with exactly
\* one inverse, the one ~m returns; mask(bs) checks nothing, and of an
\* all-zero buffer it is the zero mask, which has no inverse.
RandomMaskInvertible ==
    /\ Built("mask.random") =>
           /\ IsMask(m)
           /\ Cardinality({s \in 0..(L - 1) : IsInverseOf(s, m.bytes)}) = 1
           /\ IsInverseOf(FromBytes(mask_invert(m).bytes), m.bytes)
    /\ (Built("mask") /\ IsZero(call.arg.bytes) /\ Len(call.arg.bytes) = EncLen) =>
           /\ m = Obj("mask", ToBytes(0))
           /\ ~\E s \in 0..(L - 1) : IsInverseOf(s, m.bytes)

RandomMaskInvertibleWitness ==
    Built("mask.random") /\ IsMask(m) /\ FromBytes(m.bytes) = L - 1

\* The raw constructor was just called with the buffer bs.
RawCall == pc \in {"mask", "data"} /\ call.how \in {"mask", "data"} /\ call.arg # None

RawResult == IF pc = "mask" THEN m ELSE d

\* C5, as claimed: mask(bs) and data(bs) reject a buffer of 1 byte or of
\* one byte more than an encoding with an error.
RawBufferRejected ==
    (RawCall /\ Len(call.arg.bytes) \in {1, EncLen + 1}) => IsError(RawResult)

\* C5, amended: mask(bs) and data(bs) check nothing: a buffer of any
\* length, 1 byte and one byte too many included, is wrapped unchanged in
\* a mask or data object and no error is raised.
RawBufferWrapped ==
    RawCall => RawResult = Obj(IF pc = "mask" THEN "mask" ELSE "data", call.arg.bytes)

RawBufferWrappedWitness ==
    RawCall /\ pc = "mask" /\ call.arg.bytes = <<1>> /\ m = Obj("mask", <<1>>)

\* C6: ~m of the zero mask raises and returns no mask, and so do
\* m.unmask(d) and d / m.
ZeroInversionRaises ==
    /\ (Built("mask.__invert__") /\ call.arg.bytes = ToBytes(0)) => IsError(m)
    /\ (pc = "data" /\ ~IsError(m) /\ m.bytes = ToBytes(0) /\ IsData(d0)
          /\ hist = <<"unmask_m">>) => IsError(d)

\* C7: ~(~m0) == m0.
DoubleInversion ==
    (pc = "mask" /\ IsMask(m0) /\ ninv = 2) => (m.cls = "mask" /\ PyEq(m, m0))

DoubleInversionWitness ==
    /\ pc = "mask" /\ IsMask(m0) /\ ninv = 2 /\ call.how = "mask.__invert__"
    /\ ~PyEq(call.arg, m0) /\ PyEq(m, m0)

\* C8: from_base64(v.to_base64()) == v, of the class of v, for a valid
\* data object and for a valid mask.
Base64RoundTrip ==
    [][ (txt # None /\ txt' = None) =>
            IF pc = "mask"
            THEN IsMask(m) => (m'.cls = "mask" /\ PyEq(m', m))
            ELSE IsData(d) => (d'.cls = "data" /\ PyEq(d', d)) ]_vars

Base64RoundTripWitness ==
    /\ pc = "data" /\ call.how = "data.from_base64" /\ Len(hist) = 2
    /\ call.arg = data_to_base64(d) /\ IsData(d) /\ ~IsZero(d.bytes)
    /\ Len(call.arg.bytes) = 4 * ((EncLen + 2) \div 3)

HashTypes == {"str", "bytes", "bytearray"}

\* C9: data.hash and mask.hash raise TypeError for an argument that is no
\* str, bytes or bytearray, raise nothing for one that is, and hash a str
\* as its UTF-8 bytes.
HashInputType ==
    /\ Built("mask.hash") =>
           IF call.arg.cls \in HashTypes
           THEN ~IsError(m) /\ m.cls = "mask"
                /\ (call.arg.cls = "str" =>
                        m = mask_hash(Obj("bytes", Utf8(call.arg.bytes))))
                /\ (call.arg.cls # "str" => m = mask_hash(Obj("bytes", call.arg.bytes)))
           ELSE m = Raised("TypeError")
    /\ (pc = "data" /\ call.how = "data.hash") =>
           IF call.arg.cls \in HashTypes
           THEN ~IsError(d) /\ d.cls = "data"
                /\ (call.arg.cls = "str" =>
                        d = data_hash(Obj("bytes", Utf8(call.arg.bytes))))
                /\ (call.arg.cls # "str" => d = data_hash(Obj("bytes", call.arg.bytes)))
           ELSE d = Raised("TypeError")

HashInputTypeWitness ==
    /\ pc = "data" /\ call.how = "data.hash"
    /\ call.arg = Obj("list", <<1, 2, 3>>) /\ d = Raised("TypeError")

\* C10: m.mask(d), m(d) and m * d are one operation, the scalar
\* multiplication of d by m, and d / m, m.unmask(d) and (~m)(d) are one
\* operation, the multiplication of d by the inverse of m; each returns a
\* data object.
SameOperation ==
    (pc = "data" /\ ~IsError(d)) =>
        LET masked == mask_mask(m, d)
            unmasked == mask_unmask(m, d)
            divided == data_truediv(d, m)
            times == mask_mul(m, d)
        IN /\ masked = mask_call(m, d)
           /\ masked = times
           /\ masked = data_new(scalar_mul_point(scalar_new(m), d))
           /\ divided = unmasked
           /\ unmasked = mask_call(mask_invert(m), d)
           /\ unmasked = data_new(scalar_mul_point(scalar_invert(scalar_new(m)), d))
           /\ (IsMask(m) /\ IsData(d)) => (times.cls = "data" /\ divided.cls = "data")

SameOperationWitness ==
    /\ pc = "data" /\ IsMask(m) /\ IsData(d) /\ ~IsZero(d.bytes)
    /\ FromBytes(m.bytes) > 1 /\ Len(hist) > 0
    /\ ~PyEq(mask_mul(m, d), d) /\ ~PyEq(data_truediv(d, m), mask_mul(m, d))

====
